---------------------------- MODULE Spec2Model ----------------------------
(***************************************************************************)
(* Data layer of back-diabeia-flask: the Query class of database/data.py   *)
(* (statement construction, connection pool lifecycle, sp_execute) and the *)
(* psycopg2 SimpleConnectionPool it drives.                                *)
(*                                                                         *)
(* Text is a sequence of one-character strings, so that trimming, the      *)
(* keyword search and the synthesis of the call text are computed          *)
(* character by character as the code computes them.                       *)
(***************************************************************************)
EXTENDS Integers, Sequences, FiniteSets, TLC

(***************************************************************************)
(* Bounds of the model.                                                    *)
(***************************************************************************)
\* longest statement spec, in atoms (an atom is a keyword or one character)
MaxAtoms == 3
\* largest parameter map
MaxParams == 2
\* concurrent request handlers
NumThreads == 2
\* Query objects of the process (the repository's, the data service's, query_instance)
NumQueries == 2
\* pools constructed in one run
MaxPools == 2
\* database sessions opened in one run
MaxConns == 4
\* invocations started in one run
MaxCalls == 3
\* the pool's maxconn, scaled down from 10 so that exhaustion is within reach
MaxConn == 1

\* data.py:56  minconn=1
MinConn == 1

VARIABLES
    \* ---- _build_sql applied to one input (specification SpecBuild)
    sp,                 \* the statement spec given by the caller
    params,             \* the parameter map: NoneParams, or the [k, v] entries in insertion order
    built,              \* whether _build_sql has returned
    sql_to_execute,     \* data.py:95/100/102
    values,             \* data.py:88
    \* ---- the process: Query objects, pools, sessions, invocations
    qpool,              \* self._pool of each Query object (0 is None)
    pools,              \* the SimpleConnectionPool objects constructed so far
    nPools,             \* how many pools were constructed
    conns,              \* the state of each database session
    nConns,             \* how many sessions were opened
    calls,              \* how many invocations were started
    thread,             \* each invocation: its position, locals and history
    \* ---- get_db_config applied to one input (specification SpecConfig)
    cfg,                \* the argument env, the variable FLASK_ENV and the profile returned
    \* ---- one request handler of common_controller.py (specification SpecHttp)
    http,               \* the request, the handler's position and its response
    \* ---- one caller of sp_execute_param (specification SpecParam)
    wrap                \* the wrapper's position, its callback's invocations, its exception

build_vars == <<sp, params, built, sql_to_execute, values>>
proc_vars == <<qpool, pools, nPools, conns, nConns, calls, thread>>
ext_vars == <<cfg, http, wrap>>
vars == <<sp, params, built, sql_to_execute, values,
          qpool, pools, nPools, conns, nConns, calls, thread, cfg, http, wrap>>

\* params=None (data.py:108): no map at all, as opposed to the empty map
NoneParams == [none |-> TRUE, items |-> <<>>]

Dict(items) == [none |-> FALSE, items |-> items]

(***************************************************************************)
(* Characters and strings.                                                 *)
(***************************************************************************)
Letters == {"S","E","L","C","T","I","N","R","U","P","D","A","W","H","O","M","F",
            "s","e","l","c","t","i","n","r","u","p","d","a","w","h","x"}

\* \w of the re module: letters, digits and the underscore
IsWordChar(ch) == ch \in Letters \cup {"_", "1"}

\* str.strip() removes leading and trailing whitespace
IsSpace(ch) == ch \in {" ", "\t", "\n"}

\* re.IGNORECASE: characters are compared after case folding
Upper(ch) ==
    CASE ch = "s" -> "S" [] ch = "e" -> "E" [] ch = "l" -> "L" [] ch = "c" -> "C"
      [] ch = "t" -> "T" [] ch = "i" -> "I" [] ch = "n" -> "N" [] ch = "r" -> "R"
      [] ch = "u" -> "U" [] ch = "p" -> "P" [] ch = "d" -> "D" [] ch = "a" -> "A"
      [] ch = "w" -> "W" [] ch = "h" -> "H" [] ch = "x" -> "X"
      [] OTHER -> ch

RECURSIVE LStrip(_)
LStrip(s) == IF s # <<>> /\ IsSpace(Head(s)) THEN LStrip(Tail(s)) ELSE s

RECURSIVE RStrip(_)
RStrip(s) ==
    IF s # <<>> /\ IsSpace(s[Len(s)]) THEN RStrip(SubSeq(s, 1, Len(s) - 1)) ELSE s

\* sp.strip()
Strip(s) == RStrip(LStrip(s))

\* data.py:91  the alternatives of the pattern
SQL_KEYWORDS == { <<"S","E","L","E","C","T">>, <<"I","N","S","E","R","T">>,
                  <<"U","P","D","A","T","E">>, <<"D","E","L","E","T","E">>,
                  <<"W","I","T","H">> }

\* kw occurs in s at position i, whatever the letter case
OccursAt(s, kw, i) ==
    /\ i >= 1
    /\ i + Len(kw) - 1 <= Len(s)
    /\ \A j \in 1..Len(kw) : Upper(s[i + j - 1]) = kw[j]

\* \b before position i and after position i + Len(kw) - 1: the keyword is not
\* glued to another word character
WordBoundaries(s, kw, i) ==
    /\ (i = 1 \/ ~IsWordChar(s[i - 1]))
    /\ (i + Len(kw) - 1 = Len(s) \/ ~IsWordChar(s[i + Len(kw)]))

\* kw occurs in s at position i in exactly the pattern's letter case
OccursAtSameCase(s, kw, i) ==
    /\ i >= 1
    /\ i + Len(kw) - 1 <= Len(s)
    /\ \A j \in 1..Len(kw) : s[i + j - 1] = kw[j]

\* the search as it would be without re.IGNORECASE
SearchCaseSensitive(s) ==
    \E kw \in SQL_KEYWORDS : \E i \in 1..Len(s) :
        OccursAtSameCase(s, kw, i) /\ WordBoundaries(s, kw, i)

\* data.py:91,93  sql_keywords.search(sp_trim)
sql_keywords_search(s) ==
    \E kw \in SQL_KEYWORDS : \E i \in 1..Len(s) :
        OccursAt(s, kw, i) /\ WordBoundaries(s, kw, i)

\* '(' in sp_trim
HasParen(s) == \E i \in 1..Len(s) : s[i] = "("

\* data.py:93  the test that selects the literal-SQL branch
IsLiteralSQL(sp_trim) == sql_keywords_search(sp_trim) \/ HasParen(sp_trim)

\* bool(params): None and the empty dict are both falsy
Truthy(p) == ~p.none /\ p.items # <<>>

\* the values as they would be if taken in key order
ValuesSortedByKey(p) ==
    IF ~Truthy(p) THEN <<>>
    ELSE IF Len(p.items) = 2 /\ p.items[1].k > p.items[2].k
         THEN <<p.items[2].v, p.items[1].v>>
    ELSE [i \in 1..Len(p.items) |-> p.items[i].v]

\* data.py:88  list(params.values()) if params else []
ValuesOf(p) == IF Truthy(p) THEN [i \in 1..Len(p.items) |-> p.items[i].v] ELSE <<>>

\* data.py:99  ', '.join(['%s' for _ in params])
RECURSIVE Placeholders(_)
Placeholders(n) ==
    IF n = 0 THEN <<>>
    ELSE IF n = 1 THEN <<"%", "s">>
    ELSE Placeholders(n - 1) \o <<",", " ", "%", "s">>

SelectFrom == <<"S","E","L","E","C","T"," ","*"," ","F","R","O","M"," ">>

\* the call text as it would be with a single placeholder whatever the count
CallTextOnePlaceholder(name, p) ==
    SelectFrom \o name \o <<"(">> \o (IF Truthy(p) THEN <<"%", "s">> ELSE <<>>) \o <<")">>

\* data.py:98-102  the call text synthesized for a routine name
CallText(name, p) ==
    IF Truthy(p)
    THEN SelectFrom \o name \o <<"(">> \o Placeholders(Len(p.items)) \o <<")">>
    ELSE SelectFrom \o name \o <<"(">> \o <<")">>

\* data.py:87  sp.strip() if sp else ''
Trim(s) == IF s = <<>> THEN <<>> ELSE Strip(s)

\* data.py:87-104  _build_sql: the statement text and the value list
_build_sql(s, p) ==
    LET sp_trim == Trim(s)
    IN  [ sql    |-> IF IsLiteralSQL(sp_trim) THEN sp_trim ELSE CallText(sp_trim, p),
          values |-> ValuesOf(p) ]

(***************************************************************************)
(* Inputs of _build_sql.                                                   *)
(***************************************************************************)
Atoms == { <<" ">>, <<"(">>, <<"x">>, <<"_">>,
           <<"S","E","L","E","C","T">>, <<"i","n","s","e","r","t">>,
           <<"U","p","d","a","t","e">>, <<"d","e","l","e","t","e">>,
           <<"W","I","T","H">> }

RECURSIVE Flatten(_)
Flatten(ss) == IF ss = <<>> THEN <<>> ELSE Head(ss) \o Flatten(Tail(ss))

AtomSeqs == UNION { [1..n -> Atoms] : n \in 0..MaxAtoms }

Specs == { Flatten(ss) : ss \in AtomSeqs }

Keys == 1..MaxParams
Vals == {10, 20}

\* a dict: distinct keys, kept in insertion order
ParamItems ==
    { p \in UNION { [1..n -> [k : Keys, v : Vals]] : n \in 0..MaxParams } :
        \A i, j \in 1..Len(p) : i # j => p[i].k # p[j].k }

ParamMaps == { Dict(p) : p \in ParamItems } \cup {NoneParams}

BuildInputs ==
    /\ sp \in Specs
    /\ params \in ParamMaps
    /\ built = FALSE
    /\ sql_to_execute = <<>>
    /\ values = <<>>

\* data.py:139  sql_query, values = self._build_sql(sp, params)
ApplyBuild ==
    /\ ~built
    /\ built' = TRUE
    /\ sql_to_execute' = _build_sql(sp, params).sql
    /\ values' = _build_sql(sp, params).values
    /\ UNCHANGED <<sp, params>>

(***************************************************************************)
(* get_db_config (config_db.py).  An optional string is a record: None, or *)
(* the string it holds; the same record stands for an environment variable *)
(* that is unset or set.                                                   *)
(***************************************************************************)
NoneStr == [none |-> TRUE, s |-> ""]
Str(s) == [none |-> FALSE, s |-> s]

\* config_db.py:8/17/26/35  the keys of DB_CONFIG
Profiles == {"development", "qa", "production", "training"}

\* config_db.py:14-15  connection_timeout and request_timeout of every profile
ConnectionTimeout == 180000

\* config_db.py:7-44  DB_CONFIG: one dictionary per profile
DB_CONFIG ==
    [p \in Profiles |->
        [profile |-> p, connection_timeout |-> ConnectionTimeout,
         request_timeout |-> ConnectionTimeout]]

\* os.getenv(name, default) on a variable that is unset or set
os_getenv(variable, default) == IF variable.none THEN default ELSE variable.s

\* get_db_config as it would be if None meant the development profile,
\* whatever FLASK_ENV says
get_db_config_ignoring_FLASK_ENV(env, FLASK_ENV) ==
    IF ~env.none /\ env.s \in DOMAIN DB_CONFIG THEN DB_CONFIG[env.s]
    ELSE DB_CONFIG["development"]

\* config_db.py:47-62  get_db_config(env)
get_db_config(env, FLASK_ENV) ==
    LET e == IF env.none THEN os_getenv(FLASK_ENV, "development") ELSE env.s
    IN  IF e \in DOMAIN DB_CONFIG THEN DB_CONFIG[e] ELSE DB_CONFIG["development"]

\* values of env and of FLASK_ENV: the profiles, and names that are none
EnvNames == Profiles \cup {"", "QA", "prod", "staging", "test", "Development"}

EnvValues == { Str(n) : n \in EnvNames } \cup {NoneStr}

NoProfile == [profile |-> "", connection_timeout |-> 0, request_timeout |-> 0]

CfgIdle == [env |-> NoneStr, FLASK_ENV |-> NoneStr, done |-> FALSE, config |-> NoProfile]

CfgInputs ==
    \E e \in EnvValues, f \in EnvValues :
        cfg = [env |-> e, FLASK_ENV |-> f, done |-> FALSE, config |-> NoProfile]

\* config_db.py:58-62  the call returns the profile
ApplyConfig ==
    /\ ~cfg.done
    /\ cfg' = [cfg EXCEPT !.done = TRUE, !.config = get_db_config(cfg.env, cfg.FLASK_ENV)]

(***************************************************************************)
(* The process: Query objects, their pools, and the invocations.           *)
(*                                                                         *)
(* psycopg2's SimpleConnectionPool is the unlocked AbstractConnectionPool: *)
(* getconn, putconn and closeall are its _getconn, _putconn and _closeall. *)
(* A pool is the record of that object's fields.  Handlers run in threads  *)
(* (Flask serves each request in its own thread); a step of the model is   *)
(* one statement of the code, so that the interleavings of two handlers    *)
(* between statements are all explored.                                    *)
(***************************************************************************)
Threads == 1..NumThreads
Queries == 1..NumQueries
PoolIds == 1..MaxPools
ConnIds == 1..MaxConns

NoPool == 0
NoConn == 0
NoKey == 0

EmptyDict == [k \in {} |-> 0]

DictSet(d, k, v) == [x \in DOMAIN d \cup {k} |-> IF x = k THEN v ELSE d[x]]
DictDel(d, k) == [x \in DOMAIN d \ {k} |-> d[x]]

\* AbstractConnectionPool.__init__: closed, _pool (the idle list), _used, _rused, _keys
NewPool(idle) ==
    [closed |-> FALSE, idle |-> idle, used |-> EmptyDict, rused |-> EmptyDict, keys |-> 0]

NoPoolYet == NewPool(<<>>)

\* the statement spec and the map used by the repository's call sites
RoutineName == <<"x">>

\* data.py:138-189  an invocation before it starts
IdleThread ==
    [ pc            |-> "idle",
      op            |-> "none",
      self          |-> 1,
      auto_close    |-> FALSE,
      sp            |-> <<>>,       \* data.py:109, the argument
      sql_query     |-> <<>>,       \* data.py:139
      call_values   |-> <<>>,       \* data.py:139
      pool_instance |-> NoPool,     \* data.py:66
      key           |-> NoKey,      \* _getconn's key
      conn          |-> NoConn,     \* data.py:67
      description   |-> FALSE,      \* data.py:157
      recordsets    |-> "unset",    \* data.py:160/163
      err           |-> "none",     \* the exception in flight
      \* history of the invocation
      acquired      |-> FALSE,      \* getconn handed it a connection
      putconns      |-> 0,          \* how often it called putconn
      executed      |-> "none",     \* cursor.execute: "ok" or "error"
      committed     |-> "none",     \* conn.commit: "ok" or "failed"
      lost          |-> FALSE,      \* putconn found its session lost
      closed_pool   |-> FALSE,      \* its close() ran closeall
      idle_before   |-> 0 ]         \* idle connections of self._pool when it started

ProcInit ==
    /\ qpool = [q \in Queries |-> NoPool]
    /\ pools = [p \in PoolIds |-> NoPoolYet]
    /\ nPools = 0
    /\ conns = [c \in ConnIds |-> "none"]
    /\ nConns = 0
    /\ calls = 0
    /\ thread = [t \in Threads |-> IdleThread]

BuildIdle ==
    /\ sp = <<>>
    /\ params = NoneParams
    /\ built = FALSE
    /\ sql_to_execute = <<>>
    /\ values = <<>>

\* len(self._pool) of the pool a Query object holds (0 when it holds none)
IdleCount(q) == IF qpool[q] = NoPool THEN 0 ELSE Len(pools[qpool[q]].idle)

\* the occupancy a caller reads before its call, when no other call is under way
\* (with another call in flight there is no pre-call value to return to)
NoCount == 0 - 1
IdleBefore(t, q) ==
    IF \A u \in Threads \ {t} : thread[u].pc = "idle" THEN IdleCount(q) ELSE NoCount

Set(t, r) == thread' = [thread EXCEPT ![t] = r]

\* data.py:173-182  an exception leaves the with block (or never entered it):
\* the except clause re-raises it and the finally clause runs
Raise(th, e, where) == [th EXCEPT !.err = e, !.pc = where]

(***************************************************************************)
(* sp_execute, statement by statement.                                     *)
(***************************************************************************)
\* data.py:138-139  the call starts and builds its statement
Call(t, q, s, p, ac) ==
    /\ thread[t].pc = "idle"
    /\ calls < MaxCalls
    /\ calls' = calls + 1
    /\ Set(t, [IdleThread EXCEPT
                 !.pc = "get_pool", !.op = "sp_execute", !.self = q, !.auto_close = ac,
                 !.sp = s,
                 !.sql_query = _build_sql(s, p).sql,
                 !.call_values = _build_sql(s, p).values,
                 !.idle_before = IdleBefore(t, q)])
    /\ UNCHANGED <<qpool, pools, nPools, conns, nConns>>

\* data.py:27  if self._pool:
GetPoolCheck(t) ==
    /\ thread[t].pc = "get_pool"
    /\ Set(t, [thread[t] EXCEPT
                 !.pc = IF qpool[thread[t].self] # NoPool THEN "get_pool_ret"
                        ELSE "create_pool"])
    /\ UNCHANGED <<qpool, pools, nPools, conns, nConns, calls>>

\* data.py:55  self._pool = ...: the attribute is set on the instance
AssignPool(q, p) == [qpool EXCEPT ![q] = p]

\* data.py:55-59  pool.SimpleConnectionPool(minconn=1, maxconn=10, **config):
\* the constructor opens minconn sessions; psycopg2.connect may fail
CreatePool(t) ==
    /\ thread[t].pc = "create_pool"
    /\ \/ /\ nPools < MaxPools
          /\ nConns + MinConn <= MaxConns
          /\ nPools' = nPools + 1
          /\ nConns' = nConns + MinConn
          /\ conns' = [c \in ConnIds |->
                         IF c \in (nConns + 1)..(nConns + MinConn) THEN "open" ELSE conns[c]]
          /\ pools' = [pools EXCEPT
                         ![nPools + 1] = NewPool([i \in 1..MinConn |-> nConns + i])]
          /\ qpool' = AssignPool(thread[t].self, nPools + 1)
          /\ Set(t, [thread[t] EXCEPT !.pc = "get_pool_ret"])
       \/ /\ Set(t, Raise(thread[t], "OperationalError", "finally"))
          /\ UNCHANGED <<qpool, pools, nPools, conns, nConns>>
    /\ UNCHANGED calls

\* data.py:28/61  return self._pool, then data.py:66-67 pool_instance.getconn
\* is looked up on what was returned
GetPoolRet(t) ==
    /\ thread[t].pc = "get_pool_ret"
    /\ Set(t, IF qpool[thread[t].self] = NoPool
              THEN Raise(thread[t], "AttributeError", "finally")
              ELSE [thread[t] EXCEPT !.pool_instance = qpool[thread[t].self],
                                     !.pc = "getconn"])
    /\ UNCHANGED <<qpool, pools, nPools, conns, nConns, calls>>

\* _getconn: if self.closed: raise PoolError; then _getkey: self._keys += 1
GetConnEnter(t) ==
    LET P == thread[t].pool_instance IN
    /\ thread[t].pc = "getconn"
    /\ IF pools[P].closed
       THEN /\ Set(t, Raise(thread[t], "PoolError", "finally"))
            /\ UNCHANGED pools
       ELSE /\ pools' = [pools EXCEPT ![P].keys = @ + 1]
            /\ Set(t, [thread[t] EXCEPT !.pc = "getkey_ret"])
    /\ UNCHANGED <<qpool, nPools, conns, nConns, calls>>

\* _getkey: return self._keys
GetKeyRet(t) ==
    /\ thread[t].pc = "getkey_ret"
    /\ Set(t, [thread[t] EXCEPT !.key = pools[thread[t].pool_instance].keys,
                                !.pc = "getconn_take"])
    /\ UNCHANGED <<qpool, pools, nPools, conns, nConns, calls>>

\* _getconn: len(self._used) == self.maxconn
PoolFull(pool) == Cardinality(DOMAIN pool.used) = MaxConn

\* _getconn, the rest: a key already in use gives its connection; else an idle
\* connection is popped; else the pool is full (PoolError) or a session is
\* opened (_connect), which may fail
GetConnTake(t) ==
    LET P    == thread[t].pool_instance
        pool == pools[P]
        k    == thread[t].key
        got(c) == [thread[t] EXCEPT !.conn = c, !.key = NoKey, !.acquired = TRUE,
                                    !.pc = "execute"]
    IN
    /\ thread[t].pc = "getconn_take"
    /\ IF k \in DOMAIN pool.used
       THEN /\ Set(t, got(pool.used[k]))
            /\ UNCHANGED <<pools, conns, nConns>>
       ELSE IF pool.idle # <<>>
       THEN LET c == pool.idle[Len(pool.idle)] IN
            /\ pools' = [pools EXCEPT
                           ![P].idle  = SubSeq(pool.idle, 1, Len(pool.idle) - 1),
                           ![P].used  = DictSet(pool.used, k, c),
                           ![P].rused = DictSet(pool.rused, c, k)]
            /\ Set(t, got(c))
            /\ UNCHANGED <<conns, nConns>>
       ELSE IF PoolFull(pool)
       THEN /\ Set(t, Raise(thread[t], "PoolError", "finally"))
            /\ UNCHANGED <<pools, conns, nConns>>
       ELSE \/ /\ nConns < MaxConns
               /\ nConns' = nConns + 1
               /\ conns' = [conns EXCEPT ![nConns + 1] = "open"]
               /\ pools' = [pools EXCEPT
                              ![P].used  = DictSet(pool.used, k, nConns + 1),
                              ![P].rused = DictSet(pool.rused, nConns + 1, k)]
               /\ Set(t, got(nConns + 1))
            \/ /\ Set(t, Raise(thread[t], "OperationalError", "finally"))
               /\ UNCHANGED <<pools, conns, nConns>>
    /\ UNCHANGED <<qpool, nPools, calls>>

\* the with block as it would be without the context manager's finally: an
\* exception in the body goes straight to sp_execute's handlers
ExitWithoutRelease == "finally"

\* data.py:68-71  try: yield conn / finally: putconn -- an exception in the
\* body of the with block passes through the release
ExitWithBlock == "release"

\* the with block as it would be with the release after the yield and no
\* finally: an exception in the body would skip the release
ExceptionSkipsRelease == "finally"

\* data.py:70  finally: -- the release also runs when the body of the with
\* block raised
ExceptionExit == "release"

\* cursor.execute as it would be if the commit were attempted only for a
\* statement without a result set
ExecuteCommitsWritesOnly(t) ==
    /\ thread[t].pc = "execute"
    /\ IF conns[thread[t].conn] = "closed"
       THEN Set(t, [Raise(thread[t], "InterfaceError", ExceptionExit)
                       EXCEPT !.executed = "error"])
       ELSE \/ \E d \in BOOLEAN :
                 Set(t, [thread[t] EXCEPT !.description = d, !.executed = "ok",
                                          !.pc = IF d THEN "fetch" ELSE "commit"])
            \/ Set(t, [Raise(thread[t], "StatementError", ExceptionExit)
                          EXCEPT !.executed = "error"])
    /\ UNCHANGED <<qpool, pools, nPools, conns, nConns, calls>>

\* data.py:142-143  conn.cursor(...) and cursor.execute(sql_query, values).
\* A session closed under the invocation raises InterfaceError; otherwise the
\* database answers with a result set, with none, or with an error
Execute(t) ==
    LET c == thread[t].conn IN
    /\ thread[t].pc = "execute"
    /\ IF conns[c] = "closed"
       THEN Set(t, [Raise(thread[t], "InterfaceError", ExceptionExit)
                       EXCEPT !.executed = "error"])
       ELSE \/ \E d \in BOOLEAN :
                 Set(t, [thread[t] EXCEPT !.description = d, !.executed = "ok",
                                          !.pc = "commit"])
            \/ Set(t, [Raise(thread[t], "StatementError", ExceptionExit)
                          EXCEPT !.executed = "error"])
    /\ UNCHANGED <<qpool, pools, nPools, conns, nConns, calls>>

\* data.py:149-154  conn.commit(); except Exception: pass -- a failed commit
\* is dropped and the call goes on to the fetch
Commit(t) ==
    /\ thread[t].pc = "commit"
    /\ \/ /\ conns[thread[t].conn] # "closed"
          /\ Set(t, [thread[t] EXCEPT !.committed = "ok", !.pc = "fetch"])
       \/ Set(t, [thread[t] EXCEPT !.committed = "failed", !.pc = "fetch"])
    /\ UNCHANGED <<qpool, pools, nPools, conns, nConns, calls>>

\* the fetch as it would be without the test of cursor.description
FetchAlways(t) ==
    /\ thread[t].pc = "fetch"
    /\ Set(t, [thread[t] EXCEPT !.recordsets = "rows", !.pc = ExitWithBlock])
    /\ UNCHANGED <<qpool, pools, nPools, conns, nConns, calls>>

\* data.py:157-171  rows are fetched when the cursor has a description, else
\* recordsets is the empty list; the result is built and returned
Fetch(t) ==
    /\ thread[t].pc = "fetch"
    /\ IF thread[t].description
       THEN \/ /\ conns[thread[t].conn] # "closed"
               /\ Set(t, [thread[t] EXCEPT !.recordsets = "rows", !.pc = ExitWithBlock])
            \/ Set(t, Raise(thread[t], "FetchError", ExceptionExit))
       ELSE Set(t, [thread[t] EXCEPT !.recordsets = "empty", !.pc = ExitWithBlock])
    /\ UNCHANGED <<qpool, pools, nPools, conns, nConns, calls>>

\* _putconn on an open pool that knows the connection under key k: the
\* connection goes back to the idle list while that is shorter than minconn
\* and the session is alive (after a rollback if a transaction is open),
\* else it is closed; then the key is forgotten
PutConn(pool, c, k, alive) ==
    [pool EXCEPT !.idle  = IF Len(@) < MinConn /\ alive THEN Append(@, c) ELSE @,
                 !.used  = DictDel(@, k),
                 !.rused = DictDel(@, c)]

\* data.py:70-71  finally: pool_instance.putconn(conn).  _putconn raises
\* PoolError on a closed pool and on a connection it has no key for; an
\* exception raised here replaces the one in flight, and the pending return.
\* After a failed statement the session may be found lost
\* (TRANSACTION_STATUS_UNKNOWN), and is then closed instead of kept
Release(t) ==
    LET P    == thread[t].pool_instance
        pool == pools[P]
        c    == thread[t].conn
        th   == [thread[t] EXCEPT !.putconns = @ + 1, !.pc = "finally",
                                  !.pool_instance = NoPool, !.conn = NoConn,
                                  !.description = FALSE]
    IN
    /\ thread[t].pc = "release"
    /\ IF pool.closed \/ c \notin DOMAIN pool.rused
       THEN /\ Set(t, [th EXCEPT !.err = "PoolError"])
            /\ UNCHANGED <<pools, conns>>
       ELSE IF pool.rused[c] \notin DOMAIN pool.used
       THEN /\ Set(t, [th EXCEPT !.err = "KeyError"])
            /\ UNCHANGED <<pools, conns>>
       ELSE \E lost \in {FALSE, thread[t].executed = "error"} :
            LET alive == conns[c] = "open" /\ ~lost
                kept  == Len(pool.idle) < MinConn /\ alive
            IN
            /\ pools' = [pools EXCEPT ![P] = PutConn(pool, c, pool.rused[c], alive)]
            /\ conns' = [conns EXCEPT ![c] = IF kept THEN "open" ELSE "closed"]
            /\ Set(t, [th EXCEPT !.lost = lost])
    /\ UNCHANGED <<qpool, nPools, nConns, calls>>

\* the finally clause as it would be if it never closed the pool
ClosesNever(th) == FALSE

\* data.py:185  if auto_close:
ClosesAfterCall(th) == th.auto_close

\* data.py:184-189  finally: if auto_close: self.close()
Finally(t) ==
    /\ thread[t].pc = "finally"
    /\ Set(t, [thread[t] EXCEPT
                 !.pc = IF ClosesAfterCall(thread[t]) THEN "close_check" ELSE "return"])
    /\ UNCHANGED <<qpool, pools, nPools, conns, nConns, calls>>

(***************************************************************************)
(* close(), called by a caller or by sp_execute's finally clause.          *)
(***************************************************************************)
\* data.py:220  a caller calls close()
CallClose(t, q) ==
    /\ thread[t].pc = "idle"
    /\ calls < MaxCalls
    /\ calls' = calls + 1
    /\ Set(t, [IdleThread EXCEPT !.pc = "close_check", !.op = "close", !.self = q])
    /\ UNCHANGED <<qpool, pools, nPools, conns, nConns>>

\* data.py:186-189  try: self.close() / except Exception: pass -- inside
\* sp_execute an exception of close() is dropped; a caller of close() gets it
CloseRaises(th, e) ==
    IF th.op = "sp_execute" THEN [th EXCEPT !.pc = "return"]
    ELSE [th EXCEPT !.err = e, !.pc = "return"]

\* close() as it would be without its test of self._pool
CloseCheckUnguarded(t) ==
    /\ thread[t].pc = "close_check"
    /\ Set(t, [thread[t] EXCEPT !.pc = "close_all"])
    /\ UNCHANGED <<qpool, pools, nPools, conns, nConns, calls>>

\* data.py:222  if self._pool:
CloseCheck(t) ==
    /\ thread[t].pc = "close_check"
    /\ Set(t, [thread[t] EXCEPT
                 !.pc = IF qpool[thread[t].self] # NoPool THEN "close_all" ELSE "return"])
    /\ UNCHANGED <<qpool, pools, nPools, conns, nConns, calls>>

\* data.py:223  self._pool.closeall(): the attribute is read again; _closeall
\* raises PoolError on a closed pool, else closes the idle and the used
\* connections and marks the pool closed
CloseAll(t) ==
    LET P == qpool[thread[t].self] IN
    /\ thread[t].pc = "close_all"
    /\ IF P = NoPool
       THEN /\ Set(t, CloseRaises(thread[t], "AttributeError"))
            /\ UNCHANGED <<pools, conns>>
       ELSE IF pools[P].closed
       THEN /\ Set(t, CloseRaises(thread[t], "PoolError"))
            /\ UNCHANGED <<pools, conns>>
       ELSE /\ pools' = [pools EXCEPT ![P].closed = TRUE]
            /\ conns' = [c \in ConnIds |->
                           IF \/ \E i \in 1..Len(pools[P].idle) : pools[P].idle[i] = c
                              \/ \E k \in DOMAIN pools[P].used : pools[P].used[k] = c
                           THEN "closed" ELSE conns[c]]
            /\ Set(t, [thread[t] EXCEPT !.closed_pool = TRUE, !.pc = "close_assign"])
    /\ UNCHANGED <<qpool, nPools, nConns, calls>>

\* close() as it would be if it left the closed pool in self._pool
CloseAssignKeeps(t) ==
    /\ thread[t].pc = "close_assign"
    /\ Set(t, [thread[t] EXCEPT !.pc = "return"])
    /\ UNCHANGED <<qpool, pools, nPools, conns, nConns, calls>>

\* data.py:224  self._pool = None
CloseAssign(t) ==
    /\ thread[t].pc = "close_assign"
    /\ qpool' = [qpool EXCEPT ![thread[t].self] = NoPool]
    /\ Set(t, [thread[t] EXCEPT !.pc = "return"])
    /\ UNCHANGED <<pools, nPools, conns, nConns, calls>>

\* data.py:171/182  the call is over: it returns its result (err is "none")
\* or raises the exception in flight; its arguments and locals are gone
Return(t) ==
    /\ thread[t].pc = "return"
    /\ Set(t, IdleThread)
    /\ UNCHANGED <<qpool, pools, nPools, conns, nConns, calls>>

\* controllers/common_controller.py:10  the request handlers share the one
\* module-level CommonRepository, hence its one Query object
RepositoryQuery == 1

(***************************************************************************)
(* sp_execute_param: sp_execute with an optional completion callback.      *)
(***************************************************************************)
WrapIdle ==
    [ pc       |-> "idle",
      cb       |-> FALSE,      \* data.py:195  a callback was given
      outcome  |-> "none",     \* what sp_execute did: "returned" or the exception it raised
      released |-> TRUE,       \* sp_execute had given its connection back when it ended
      cb_args  |-> <<>>,       \* the arguments of the callback's invocations, in order
      err      |-> "none" ]    \* the exception sp_execute_param raises

\* data.py:210-211  sp_execute_param starts and calls sp_execute
CallParam(t, q, s, p, cb, ac) ==
    /\ wrap.pc \in {"idle", "done"}
    /\ Call(t, q, s, p, ac)
    /\ wrap' = [WrapIdle EXCEPT !.pc = "in_sp_execute", !.cb = cb]

\* data.py:211-218  sp_execute is over: on a return the callback, if any, is
\* called with the result, else the result is returned; an exception goes to
\* the except clause, which calls the callback, if any, and raises the exception
ParamReturn(t) ==
    /\ wrap.pc = "in_sp_execute"
    /\ Return(t)
    /\ LET e == thread[t].err
           w == [wrap EXCEPT !.outcome = IF e = "none" THEN "returned" ELSE e,
                             !.released = thread[t].acquired => thread[t].putconns = 1]
       IN  wrap' = IF e = "none"
                   THEN [w EXCEPT !.pc = IF wrap.cb THEN "cb_result" ELSE "done"]
                   ELSE [w EXCEPT !.err = e, !.pc = IF wrap.cb THEN "cb_error" ELSE "done"]

\* data.py:213  cb(result), inside the try block: what the callback raises is
\* caught by the except clause of data.py:215
CallbackResult ==
    /\ wrap.pc = "cb_result"
    /\ \/ wrap' = [wrap EXCEPT !.cb_args = Append(@, "result"), !.pc = "done"]
       \/ wrap' = [wrap EXCEPT !.cb_args = Append(@, "result"), !.err = "CallbackError",
                               !.pc = "cb_error"]
    /\ UNCHANGED proc_vars

\* data.py:216-218  cb(err); raise err -- what the callback raises here leaves
\* sp_execute_param in place of err
CallbackError ==
    /\ wrap.pc = "cb_error"
    /\ \/ wrap' = [wrap EXCEPT !.cb_args = Append(@, wrap.err), !.pc = "done"]
       \/ wrap' = [wrap EXCEPT !.cb_args = Append(@, wrap.err), !.err = "CallbackError",
                               !.pc = "done"]
    /\ UNCHANGED proc_vars

(***************************************************************************)
(* The request handlers of controllers/common_controller.py.  A handler    *)
(* runs in the thread of its request and calls the shared repository,      *)
(* which calls sp_execute with auto_close left at its default.             *)
(***************************************************************************)
\* common_controller.py:15/47  the two catalogue routes
GetRoutes == {"getDataMomentToDayDB", "getDataActivityFisicaDB"}

\* common_controller.py:81  the insert route
PostRoute == "postInsGlucoseRecord"

\* the body of a POST request: none at all, JSON that is falsy ({} or null),
\* or a JSON object with entries
Bodies == {"absent", "falsy", "data"}

\* request.args.to_dict() / request.get_json(): the maps handed to the repository
HttpParams == { Dict(<<>>), Dict(<<[k |-> 1, v |-> 10]>>) }

HttpIdle ==
    [ pc      |-> "idle",
      route   |-> "none",
      body    |-> "none",
      called  |-> FALSE,     \* the repository, hence sp_execute, was called
      raised  |-> FALSE,     \* sp_execute raised
      failed  |-> FALSE,     \* something failed inside sp_execute
      status  |-> 0,
      success |-> FALSE ]

ExtIdle == cfg = CfgIdle /\ http = HttpIdle /\ wrap = WrapIdle

\* common_controller.py:33-37/116-120 and 39-44/122-127  the response
Response(h, status, success) ==
    [h EXCEPT !.pc = "done", !.status = status, !.success = success]

\* common_controller.py:27-31 and 59-63  a GET handler starts and calls the
\* repository (common_repository.py:37/54) with the query parameters
HandleGet(t, route, p) ==
    /\ http.pc \in {"idle", "done"}
    /\ Call(t, RepositoryQuery, RoutineName, p, FALSE)
    /\ http' = [HttpIdle EXCEPT !.pc = "in_repository", !.route = route, !.called = TRUE]

\* common_controller.py:102-114  the POST handler reads the body.  get_json
\* raises on a request without a JSON body (BadRequest for an empty body sent
\* as JSON, UnsupportedMediaType without the JSON content type on newer
\* Flask) or returns None (older Flask, no JSON content type); the except
\* clause of the handler catches what it raises
HandlePost(t, body, p) ==
    /\ http.pc \in {"idle", "done"}
    /\ thread[t].pc = "idle"
    /\ LET h == [HttpIdle EXCEPT !.route = PostRoute, !.body = body] IN
       CASE body = "absent" ->
              /\ \/ http' = Response(h, 500, FALSE)
                 \/ http' = Response(h, 400, FALSE)
              /\ UNCHANGED proc_vars
         [] body = "falsy" ->
              /\ http' = Response(h, 400, FALSE)
              /\ UNCHANGED proc_vars
         [] body = "data" ->
              /\ p.items # <<>>
              /\ Call(t, RepositoryQuery, RoutineName, p, FALSE)
              /\ http' = [h EXCEPT !.pc = "in_repository", !.called = TRUE]

\* common_controller.py:33-44, 65-76, 116-127  sp_execute is over: the handler
\* answers 200 (201 for the insert) if it returned, 500 if it raised
Respond(t) ==
    /\ http.pc = "in_repository"
    /\ Return(t)
    /\ LET th == thread[t]
           h  == [http EXCEPT !.raised = th.err # "none",
                              !.failed = \/ th.err # "none"
                                         \/ th.executed = "error"
                                         \/ th.committed = "failed"]
       IN  http' = IF th.err # "none" THEN Response(h, 500, FALSE)
                   ELSE IF http.route = PostRoute THEN Response(h, 201, TRUE)
                   ELSE Response(h, 200, TRUE)

(***************************************************************************)
(* Specifications.                                                         *)
(***************************************************************************)
\* the calls made by the threads T on the Query objects Q, with statement
\* specs drawn from S and parameter maps from PM
Calls(T, Q, S, PM) ==
    \/ \E t \in T, q \in Q, s \in S, p \in PM, ac \in BOOLEAN :
          Call(t, q, s, p, ac) /\ UNCHANGED <<build_vars, ext_vars>>
    \/ \E t \in T, q \in Q : CallClose(t, q) /\ UNCHANGED <<build_vars, ext_vars>>

\* the steps of sp_execute up to its finally clause
ExecSteps(T) ==
    \/ \E t \in T : GetPoolCheck(t) /\ UNCHANGED <<build_vars, ext_vars>>
    \/ \E t \in T : CreatePool(t) /\ UNCHANGED <<build_vars, ext_vars>>
    \/ \E t \in T : GetPoolRet(t) /\ UNCHANGED <<build_vars, ext_vars>>
    \/ \E t \in T : GetConnEnter(t) /\ UNCHANGED <<build_vars, ext_vars>>
    \/ \E t \in T : GetKeyRet(t) /\ UNCHANGED <<build_vars, ext_vars>>
    \/ \E t \in T : GetConnTake(t) /\ UNCHANGED <<build_vars, ext_vars>>
    \/ \E t \in T : Execute(t) /\ UNCHANGED <<build_vars, ext_vars>>
    \/ \E t \in T : Commit(t) /\ UNCHANGED <<build_vars, ext_vars>>
    \/ \E t \in T : Fetch(t) /\ UNCHANGED <<build_vars, ext_vars>>
    \/ \E t \in T : Release(t) /\ UNCHANGED <<build_vars, ext_vars>>
    \/ \E t \in T : Finally(t) /\ UNCHANGED <<build_vars, ext_vars>>

\* the steps of close()
CloseSteps(T) ==
    \/ \E t \in T : CloseCheck(t) /\ UNCHANGED <<build_vars, ext_vars>>
    \/ \E t \in T : CloseAll(t) /\ UNCHANGED <<build_vars, ext_vars>>
    \/ \E t \in T : CloseAssign(t) /\ UNCHANGED <<build_vars, ext_vars>>

\* the steps of the invocations run by the threads T on the Query objects Q,
\* with statement specs drawn from S and parameter maps from PM
Steps(T, Q, S, PM) ==
    \/ Calls(T, Q, S, PM)
    \/ ExecSteps(T)
    \/ CloseSteps(T)
    \/ \E t \in T : Return(t) /\ UNCHANGED <<build_vars, ext_vars>>

Init == ProcInit /\ BuildIdle /\ ExtIdle

\* concurrent request handlers, each calling the repository's routines
Next == Steps(Threads, {RepositoryQuery}, {RoutineName}, {Dict(<<>>)})

Spec == Init /\ [][Next]_vars

\* statement specs and parameter maps of the sequential callers
CallSpecs == { <<" ">>, RoutineName, <<"S","E","L","E","C","T">> }
CallParams == { NoneParams, Dict(<<[k |-> 2, v |-> 10], [k |-> 1, v |-> 20]>>) }

\* one caller, one call after the other, on any of the Query objects
NextSeq == Steps({1}, Queries, CallSpecs, CallParams)

SpecSeq == Init /\ [][NextSeq]_vars

\* _build_sql applied to one input
BuildInit == BuildInputs /\ ProcInit /\ ExtIdle

BuildNext == ApplyBuild /\ UNCHANGED <<proc_vars, ext_vars>>

SpecBuild == BuildInit /\ [][BuildNext]_vars

\* get_db_config applied to one input
ConfigInit == CfgInputs /\ http = HttpIdle /\ wrap = WrapIdle /\ ProcInit /\ BuildIdle

ConfigNext == ApplyConfig /\ UNCHANGED <<build_vars, proc_vars, http, wrap>>

SpecConfig == ConfigInit /\ [][ConfigNext]_vars

\* one request after the other, each served by a handler
NextHttp ==
    \/ \E t \in {1}, r \in GetRoutes, p \in HttpParams :
          HandleGet(t, r, p) /\ UNCHANGED <<build_vars, cfg, wrap>>
    \/ \E t \in {1}, b \in Bodies, p \in HttpParams :
          HandlePost(t, b, p) /\ UNCHANGED <<build_vars, cfg, wrap>>
    \/ ExecSteps({1})
    \/ \E t \in {1} : Respond(t) /\ UNCHANGED <<build_vars, cfg, wrap>>

SpecHttp == Init /\ [][NextHttp]_vars

\* one caller of sp_execute_param, one call after the other
NextParam ==
    \/ \E t \in {1}, q \in Queries, cb \in BOOLEAN, ac \in BOOLEAN :
          CallParam(t, q, RoutineName, Dict(<<>>), cb, ac) /\ UNCHANGED <<build_vars, cfg, http>>
    \/ ExecSteps({1})
    \/ CloseSteps({1})
    \/ \E t \in {1} : ParamReturn(t) /\ UNCHANGED <<build_vars, cfg, http>>
    \/ CallbackResult /\ UNCHANGED <<build_vars, cfg, http>>
    \/ CallbackError /\ UNCHANGED <<build_vars, cfg, http>>

SpecParam == Init /\ [][NextParam]_vars


(***************************************************************************)
(* Properties of sp_execute and the pool (specifications Spec, SpecSeq).   *)
(***************************************************************************)
InCall(t) == thread[t].op = "sp_execute" /\ thread[t].pc # "idle"

\* between getconn's return and putconn: inside the with block of data.py:141
InWithBlock(t) == thread[t].pc \in {"execute", "commit", "fetch", "release"}

\* past the with block: sp_execute's finally clause, and the return or raise
PastWithBlock(t) ==
    InCall(t) /\ thread[t].pc \in {"finally", "close_check", "close_all", "close_assign",
                                   "return"}

\* the call is over: it is about to hand its result or its exception to the caller
CallOver(t) == InCall(t) /\ thread[t].pc = "return"

\* the pools that were constructed and not closed
LivePools == { P \in 1..nPools : ~pools[P].closed }

\* C1: an invocation that got a connection from getconn calls putconn for it
\* exactly once before it returns or raises, whatever the exit path (success,
\* statement error, commit error, fetch error): never before the with block is
\* left, never twice, and never without having acquired; and a live pool
\* keeps no connection checked out for an invocation that is not in its with
\* block.
C1_ReleasedExactlyOnce ==
    /\ \A t \in Threads :
         /\ thread[t].putconns <= 1
         /\ thread[t].putconns = 1 => thread[t].acquired
         /\ InWithBlock(t) => thread[t].acquired /\ thread[t].putconns = 0
         /\ (PastWithBlock(t) /\ thread[t].acquired) => thread[t].putconns = 1
    /\ \A P \in LivePools : \A k \in DOMAIN pools[P].used :
         \E t \in Threads :
            /\ InWithBlock(t)
            /\ thread[t].pool_instance = P
            /\ thread[t].conn = pools[P].used[k]

\* two invocations are over, one after a statement error and one after a
\* failed commit followed by a fetch error, and each has released once
C1_Witness ==
    \E t, u \in Threads :
        /\ CallOver(t) /\ thread[t].executed = "error" /\ thread[t].putconns = 1
        /\ CallOver(u) /\ thread[u].committed = "failed"
        /\ thread[u].err = "FetchError" /\ thread[u].putconns = 1

\* C2 as stated: when a call is over, the Query object's pool has as many idle
\* connections as it had when the call started, for every call of a sequence.
C2_IdleCountRestored ==
    \A t \in Threads : CallOver(t) => IdleCount(thread[t].self) = thread[t].idle_before

\* C2 amended: when a call made with auto_close=False on a pool that was already
\* initialized and had its minconn idle connection is over, and its session was
\* not found lost at release, the pool has as many idle connections as when the
\* call started, whether the call succeeded or failed.
C2_IdleCountRestoredOnLivePool ==
    \A t \in Threads :
        (/\ CallOver(t)
         /\ ~thread[t].auto_close
         /\ thread[t].idle_before = MinConn
         /\ ~thread[t].lost)
        => IdleCount(thread[t].self) = thread[t].idle_before

\* a call on an initialized pool failed in its statement and left the idle count as it was
C2_Witness ==
    \E t \in Threads :
        /\ CallOver(t)
        /\ ~thread[t].auto_close
        /\ thread[t].idle_before = MinConn
        /\ thread[t].executed = "error"
        /\ thread[t].err = "StatementError"
        /\ ~thread[t].lost
        /\ IdleCount(thread[t].self) = MinConn

\* C3: no connection is held by two invocations that are both inside their
\* with block.
C3_ExclusiveConnection ==
    \A t, u \in Threads :
        (t # u /\ InWithBlock(t) /\ InWithBlock(u)) => thread[t].conn # thread[u].conn

\* C4: at most one live pool exists in the process, and every invocation,
\* whichever Query object it is made through, acquires from that pool.
C4_SingletonPool ==
    /\ Cardinality(LivePools) <= 1
    /\ \A t \in Threads : InWithBlock(t) => \A P \in LivePools : thread[t].pool_instance = P

\* C5: a call whose statement executed and whose commit failed does not return
\* a result: it raises.
C5_CommitFailureReported ==
    \A t \in Threads :
        (CallOver(t) /\ thread[t].executed = "ok" /\ thread[t].committed = "failed")
        => thread[t].err # "none"

\* C9: a call whose statement spec is empty after trimming builds no call text
\* and goes nowhere near the pool: it fails before _get_pool.
C9_EmptySpecIsUsageError ==
    \A t \in Threads :
        (InCall(t) /\ Strip(thread[t].sp) = <<>>)
        => /\ thread[t].sql_query # SelectFrom \o <<"(", ")">>
           /\ thread[t].pc \notin {"get_pool", "create_pool", "get_pool_ret", "getconn",
                                   "getkey_ret", "getconn_take"}
           /\ ~thread[t].acquired

\* the invocation is in getconn, no connection is idle and maxconn are checked out
AtExhaustedPool(t) ==
    /\ thread[t].pc = "getconn_take"
    /\ ~pools[thread[t].pool_instance].closed
    /\ thread[t].key \notin DOMAIN pools[thread[t].pool_instance].used
    /\ pools[thread[t].pool_instance].idle = <<>>
    /\ PoolFull(pools[thread[t].pool_instance])

\* C10: an invocation that finds the pool exhausted waits: no step makes it
\* fail while the pool is exhausted (it goes on once a connection is released).
C10_ExhaustedPoolBlocks ==
    [][\A t \in Threads : AtExhaustedPool(t) => (thread'[t].err = "none")]_vars


\* a call of close() is over
CloseOver(t) == thread[t].op = "close" /\ thread[t].pc = "return"

\* the sessions a pool holds, idle or checked out
ConnsOf(P) ==
    { pools[P].idle[i] : i \in 1..Len(pools[P].idle) }
        \cup { pools[P].used[k] : k \in DOMAIN pools[P].used }

\* C11: a call of close() made when no other call is under way raises nothing
\* and leaves the Query object without a pool, whether the object never had a
\* pool, has a live one, or was closed before; a close() that finds no pool
\* changes nothing, so closing twice leaves the state of closing once.
C11_CloseIdempotent ==
    /\ \A t \in Threads :
         CloseOver(t) => /\ thread[t].err = "none"
                         /\ qpool[thread[t].self] = NoPool
    /\ \A t \in Threads :
         (thread[t].op = "close" /\ thread[t].pc = "close_all")
            => qpool[thread[t].self] \in LivePools
    /\ \A P \in 1..nPools : pools[P].closed => \A c \in ConnsOf(P) : conns[c] = "closed"

\* a close() that found no pool is over after the pools that were created
\* have been closed
C11_Witness ==
    \E t \in Threads :
        /\ CloseOver(t)
        /\ ~thread[t].closed_pool
        /\ thread[t].err = "none"
        /\ nPools >= 1
        /\ LivePools = {}
        /\ \A q \in Queries : qpool[q] = NoPool

\* a teardown of q's pool is between closeall and the assignment of None
Closing(q) ==
    \E t \in Threads : thread[t].pc = "close_assign" /\ thread[t].self = q

\* the pool of a Query object is uninitialized, alive, or being torn down;
\* every open session belongs to the live pool of some Query object
PoolLifecycleStates ==
    /\ \A q \in Queries :
         qpool[q] # NoPool => /\ qpool[q] \in 1..nPools
                              /\ pools[qpool[q]].closed <=> Closing(q)
    /\ \A c \in ConnIds :
         conns[c] = "open" => \E q \in Queries : /\ qpool[q] \in LivePools
                                                 /\ c \in ConnsOf(qpool[q])
    /\ \A t \in Threads :
         InWithBlock(t) => /\ thread[t].pool_instance = qpool[thread[t].self]
                           /\ thread[t].pool_instance \in LivePools
                           /\ conns[thread[t].conn] = "open"

\* the pool of a Query object changes only from uninitialized to a pool newly
\* constructed, and from a pool that closeall has closed to uninitialized
PoolLifecycleSteps ==
    \A q \in Queries :
        qpool'[q] # qpool[q] =>
            \/ /\ qpool[q] = NoPool
               /\ qpool'[q] = nPools'
               /\ nPools' = nPools + 1
               /\ ~pools'[qpool'[q]].closed
            \/ /\ qpool[q] # NoPool
               /\ qpool'[q] = NoPool
               /\ pools[qpool[q]].closed
               /\ \A c \in ConnsOf(qpool[q]) : conns[c] = "closed"

\* C12: for calls of sp_execute and close() made one after the other, a Query
\* object's pool goes uninitialized -> alive -> torn down (uninitialized, all
\* its sessions closed) -> alive again with a newly constructed pool, and a
\* call inside its with block works on the live pool of its Query object.
C12_PoolLifecycle ==
    []PoolLifecycleStates /\ [][PoolLifecycleSteps]_vars

\* a call returned rows from the second pool after the first was torn down
C12_Witness ==
    \E t \in Threads :
        /\ CallOver(t)
        /\ thread[t].err = "none"
        /\ thread[t].recordsets = "rows"
        /\ nPools = 2
        /\ pools[1].closed
        /\ qpool[thread[t].self] = 2
        /\ \A q \in Queries \ {thread[t].self} : qpool[q] = NoPool

\* the exception classes an invocation can raise
ExceptionTypes ==
    {"OperationalError", "AttributeError", "PoolError", "KeyError", "InterfaceError",
     "StatementError", "FetchError"}

\* C13: a call that returns hands back a result with error None and recordsets
\* a sequence, and it returns only if nothing failed: a failure of acquisition,
\* execution, commit or fetch makes the call raise an exception object.
C13_ResultOrException ==
    \A t \in Threads :
        CallOver(t) =>
            IF thread[t].err = "none"
            THEN /\ thread[t].recordsets \in {"rows", "empty"}
                 /\ thread[t].acquired
                 /\ thread[t].executed = "ok"
                 /\ thread[t].committed = "ok"
            ELSE thread[t].err \in ExceptionTypes

\* the fetch is done and nothing has failed: the result is about to be returned
\* (the cursor is still open, the connection not yet released)
FetchDone(t) == InCall(t) /\ thread[t].pc = "release" /\ thread[t].err = "none"

\* C14: in a call that succeeds, recordsets holds fetched rows exactly if the
\* cursor reports a result set (cursor.description); without one, recordsets
\* is the empty list, and the call does not fail for it.
C14_RowsIffDescription ==
    \A t \in Threads :
        /\ FetchDone(t) => /\ thread[t].recordsets = "rows" <=> thread[t].description
                           /\ ~thread[t].description => thread[t].recordsets = "empty"
        /\ (InCall(t) /\ thread[t].recordsets # "unset") =>
               /\ thread[t].executed = "ok"
               /\ thread[t].recordsets \in {"rows", "empty"}
        /\ (InCall(t) /\ thread[t].pc = "fetch" /\ ~thread[t].description) =>
               thread[t].err = "none"
        /\ (InCall(t) /\ thread[t].err = "FetchError") => thread[t].recordsets = "unset"

\* a statement without a result set was executed and its call is about to
\* return the empty list
C14_Witness ==
    \E t \in Threads :
        /\ FetchDone(t)
        /\ thread[t].executed = "ok"
        /\ ~thread[t].description
        /\ thread[t].recordsets = "empty"

\* C15: a call whose cursor.execute raised ends by raising that exception: the
\* release of the connection and the teardown of the pool, by this call or by
\* another one under way, do not put another exception in its place.
C15_ExecutionErrorSurfaces ==
    \A t \in Threads :
        (CallOver(t) /\ thread[t].executed = "error")
            => thread[t].err \in {"StatementError", "InterfaceError"}

\* sp_execute is running close() from its finally clause
InAutoClose(t) ==
    InCall(t) /\ thread[t].pc \in {"close_check", "close_all", "close_assign"}

\* C16: a call made with auto_close=True ends, on success and on every failure
\* path, with the pool of its Query object torn down and self._pool None, and
\* its close() starts only after the call has released its connection; a call
\* made with auto_close=False never runs close() and closes no pool.
C16_AutoCloseTearsDown ==
    \A t \in Threads :
        /\ (CallOver(t) /\ thread[t].auto_close) =>
               /\ qpool[thread[t].self] = NoPool
               /\ thread[t].acquired => thread[t].closed_pool
        /\ InAutoClose(t) =>
               /\ thread[t].auto_close
               /\ thread[t].acquired => thread[t].putconns = 1
               /\ thread[t].conn = NoConn
        /\ (InCall(t) /\ thread[t].closed_pool) => thread[t].auto_close
        /\ (InCall(t) /\ ~thread[t].auto_close /\ thread[t].acquired
              /\ PastWithBlock(t) /\ thread[t].err \in {"none", "StatementError", "FetchError"})
               => qpool[thread[t].self] \in LivePools

\* a call made with auto_close=True failed in its statement, released its
\* connection and tore the pool down
C16_Witness ==
    \E t \in Threads :
        /\ CallOver(t)
        /\ thread[t].auto_close
        /\ thread[t].err = "StatementError"
        /\ thread[t].putconns = 1
        /\ thread[t].closed_pool
        /\ qpool[thread[t].self] = NoPool

\* C18: the status of a response follows from the outcome.  A catalogue route
\* answers 200 with success when sp_execute returned and 500 without success
\* when it raised; the insert route answers 400 without calling sp_execute
\* when the body is absent, 201 when sp_execute returned, 500 when it raised;
\* no failure inside sp_execute gives a 2xx status and an absent body never
\* gives 500.
C18_StatusByOutcome ==
    http.pc = "done" =>
        /\ http.route \in GetRoutes =>
              IF http.raised THEN http.status = 500 /\ ~http.success
              ELSE http.status = 200 /\ http.success
        /\ http.route = PostRoute =>
              /\ http.body = "absent" => (http.status = 400 /\ ~http.called)
              /\ (http.called /\ ~http.raised) => http.status = 201
              /\ (http.called /\ http.raised) => (http.status = 500 /\ ~http.success)
        /\ http.failed => http.status \notin {200, 201}
        /\ http.body = "absent" => http.status # 500

\* C19: within one call of sp_execute the steps come in the order acquire,
\* execute, commit attempt, fetch, release, return: the statement is executed
\* on an acquired connection, a commit is attempted after every execution that
\* succeeded (with or without a result set) and before the fetch, the
\* connection is released after the fetch, and a call that returns has been
\* through all of them.
C19_StepOrder ==
    \A t \in Threads : InCall(t) =>
        /\ thread[t].executed # "none" => thread[t].acquired
        /\ thread[t].pc = "execute" =>
              /\ thread[t].acquired /\ thread[t].executed = "none"
              /\ thread[t].committed = "none" /\ thread[t].putconns = 0
        /\ thread[t].pc = "commit" =>
              /\ thread[t].executed = "ok" /\ thread[t].committed = "none"
              /\ thread[t].recordsets = "unset" /\ thread[t].putconns = 0
        /\ thread[t].pc = "fetch" =>
              /\ thread[t].committed # "none"
              /\ thread[t].recordsets = "unset" /\ thread[t].putconns = 0
        /\ thread[t].committed # "none" => thread[t].executed = "ok"
        /\ (thread[t].executed = "ok" /\ thread[t].pc # "commit") =>
              thread[t].committed # "none"
        /\ thread[t].recordsets # "unset" => thread[t].committed # "none"
        /\ (thread[t].pc = "release" /\ thread[t].err = "none") =>
              thread[t].recordsets # "unset"
        /\ (thread[t].putconns = 1 /\ thread[t].executed = "ok"
              /\ thread[t].err \notin {"FetchError"}) => thread[t].recordsets # "unset"
        /\ (CallOver(t) /\ thread[t].err = "none") =>
              /\ thread[t].acquired /\ thread[t].executed = "ok"
              /\ thread[t].committed # "none" /\ thread[t].recordsets # "unset"
              /\ thread[t].putconns = 1

\* a call went through execute, commit, fetch and release and returns its rows
C19_Witness ==
    \E t \in Threads :
        /\ CallOver(t)
        /\ thread[t].err = "none"
        /\ thread[t].executed = "ok"
        /\ thread[t].committed = "ok"
        /\ thread[t].recordsets = "rows"
        /\ thread[t].putconns = 1

\* C20: a call of sp_execute_param with a callback invokes the callback
\* exactly once, with the result when sp_execute returned and with the
\* exception when it raised (and that exception is then raised), also when the
\* callback itself raises; and the callback runs after the connection was
\* released.
C20_CallbackOnce ==
    /\ (wrap.pc = "done" /\ wrap.cb) =>
          /\ Len(wrap.cb_args) = 1
          /\ wrap.outcome = "returned" => wrap.cb_args = <<"result">>
          /\ wrap.outcome # "returned" =>
                /\ wrap.cb_args = <<wrap.outcome>>
                /\ wrap.err \in {wrap.outcome, "CallbackError"}
    /\ (wrap.pc = "done" /\ ~wrap.cb) => wrap.cb_args = <<>>
    /\ wrap.cb_args # <<>> => wrap.released
    /\ wrap.pc \in {"cb_result", "cb_error"} => \A t \in Threads : thread[t].pc = "idle"

\* C21: invocations that find the pool of their Query object uninitialized at
\* the same time create one pool between them: every pool that was constructed
\* and not closed is the pool of a Query object, so that close() reaches it.
C21_NoOrphanPool ==
    \A P \in LivePools : \E q \in Queries : qpool[q] = P

\* the pool an invocation acquired from was torn down while the invocation
\* is inside its with block
TornDownInFlight(t) ==
    InWithBlock(t) /\ pools[thread[t].pool_instance].closed

\* C22: a teardown of the pool by another invocation leaves an invocation in
\* flight as it would have been: its connection is not closed under it, and
\* when its statement, its commit and its fetch succeeded, its release does
\* not raise and it returns its result.
C22_TeardownSparesInFlight ==
    \A t \in Threads :
        /\ TornDownInFlight(t) => conns[thread[t].conn] = "open"
        /\ (CallOver(t) /\ thread[t].executed = "ok" /\ thread[t].committed = "ok"
              /\ thread[t].recordsets # "unset") => thread[t].err = "none"

(***************************************************************************)
(* Properties of _build_sql (specification SpecBuild).                     *)
(***************************************************************************)
UpperSeq(s) == [i \in 1..Len(s) |-> Upper(s[i])]

\* the maximal runs of word characters of s
WordsOf(s) ==
    { SubSeq(s, i, j) : <<i, j>> \in
        { ij \in (1..Len(s)) \X (1..Len(s)) :
            /\ ij[1] <= ij[2]
            /\ \A m \in ij[1]..ij[2] : IsWordChar(s[m])
            /\ (ij[1] = 1 \/ ~IsWordChar(s[ij[1] - 1]))
            /\ (ij[2] = Len(s) \/ ~IsWordChar(s[ij[2] + 1])) } }

\* one of the five keywords is a substring of s, in any letter case
ContainsKeyword(s) ==
    \E kw \in SQL_KEYWORDS : \E i \in 1..Len(s) :
        /\ i + Len(kw) - 1 <= Len(s)
        /\ SubSeq(UpperSeq(s), i, i + Len(kw) - 1) = kw

\* one of the five keywords is a whole word of s, in any letter case
HasKeywordWord(s) == \E w \in WordsOf(s) : UpperSeq(w) \in SQL_KEYWORDS

NumEntries == IF params.none THEN 0 ELSE Len(params.items)

\* C6 as stated: a spec that contains a keyword anywhere, in any letter case,
\* or contains '(' is used verbatim (trimmed) as the statement text.
C6_KeywordAnywhereIsLiteral ==
    (built /\ (ContainsKeyword(sp) \/ HasParen(sp))) => sql_to_execute = Strip(sp)

\* C6 amended: a spec in which a keyword stands as a whole word (not glued to a
\* letter, digit or underscore), in any letter case, or which contains '(' is
\* used verbatim (trimmed) as the statement text: no call is synthesized.
C6_KeywordWordIsLiteral ==
    (built /\ (HasKeywordWord(sp) \/ HasParen(sp))) => sql_to_execute = Strip(sp)

C6_Witness ==
    /\ built
    /\ HasKeywordWord(sp)
    /\ ~HasParen(sp)
    /\ \E w \in WordsOf(sp) : UpperSeq(w) \in SQL_KEYWORDS /\ w \notin SQL_KEYWORDS
    /\ Strip(sp) # sp
    /\ sql_to_execute = Strip(sp)

\* n placeholders joined by ", ", written out position by position
ExpectedPlaceholders(n) ==
    IF n = 0 THEN <<>>
    ELSE [i \in 1..(4 * n - 2) |->
            CASE i % 4 = 1 -> "%" [] i % 4 = 2 -> "s" [] i % 4 = 3 -> "," [] OTHER -> " "]

\* C7: for a routine name and a map of n entries (None counts as 0) the text is
\* SELECT * FROM <name>(<n placeholders>) and the value list has length n; for
\* n = 0 the parentheses are empty and so is the value list.
C7_RoutineCallText ==
    (built /\ ~HasKeywordWord(sp) /\ ~HasParen(sp)) =>
        /\ sql_to_execute =
             SelectFrom \o Strip(sp) \o <<"(">> \o ExpectedPlaceholders(NumEntries) \o <<")">>
        /\ Len(values) = NumEntries
        /\ Cardinality({i \in 1..Len(sql_to_execute) : sql_to_execute[i] = "%"}) = NumEntries

C7_Witness ==
    /\ built
    /\ ~HasKeywordWord(sp) /\ ~HasParen(sp)
    /\ Strip(sp) # <<>>
    /\ NumEntries = 2
    /\ Cardinality({i \in 1..Len(sql_to_execute) : sql_to_execute[i] = "%"}) = 2

\* C8: whichever branch is taken, the argument list is the map's values in
\* insertion order; the keys play no part in the order.
C8_ValuesInInsertionOrder ==
    built =>
        /\ Len(values) = NumEntries
        /\ \A i \in 1..NumEntries : values[i] = params.items[i].v

C8_Witness ==
    /\ built
    /\ NumEntries = 2
    /\ params.items[1].k > params.items[2].k
    /\ params.items[1].v # params.items[2].v
    /\ values = <<params.items[1].v, params.items[2].v>>


(***************************************************************************)
(* Properties of get_db_config (specification SpecConfig).                 *)
(***************************************************************************)
\* the environment name get_db_config works with
ResolvedEnv ==
    IF ~cfg.env.none THEN cfg.env.s
    ELSE IF cfg.FLASK_ENV.none THEN "development" ELSE cfg.FLASK_ENV.s

\* C17: get_db_config(env) returns the profile of env when env is development,
\* qa, production or training, the development profile for every other name,
\* and for env None it does so with the value of FLASK_ENV (development when
\* FLASK_ENV is unset).
C17_ProfileOrDevelopment ==
    cfg.done =>
        /\ cfg.config \in { DB_CONFIG[p] : p \in Profiles }
        /\ ResolvedEnv \in Profiles => cfg.config.profile = ResolvedEnv
        /\ ResolvedEnv \notin Profiles => cfg.config.profile = "development"

\* called with None while FLASK_ENV is qa, get_db_config returned the qa profile
C17_Witness ==
    /\ cfg.done
    /\ cfg.env.none
    /\ cfg.FLASK_ENV = Str("qa")
    /\ cfg.config.profile = "qa"

=============================================================================
